---- MODULE Spec2Model ----
(***************************************************************************)
(* Model of the invoice-parser backend: the retry executor                 *)
(* (app/utils/retry.py), the file gate (app/services/file_validator.py)    *)
(* and the /api/parse endpoint that sequences them (app/api/parse.py).     *)
(*                                                                         *)
(* Durations are integers in milliseconds (1.0 s = 1000); a jitter factor  *)
(* is an integer percentage (0.5 = 50, 1.5 = 150).                         *)
(***************************************************************************)
EXTENDS Integers, Sequences, FiniteSets, TLC

VARIABLES
    func,            \* the awaited operation: its outcome at each invocation
    max_retries,     \* retry policy of the current call
    initial_delay,
    backoff_factor,
    jitter,
    attempt,         \* loop index of retry_with_exponential_backoff
    rpc,             \* position inside retry_with_exponential_backoff
    calls,           \* number of invocations of func so far
    sleeps,          \* delays passed to asyncio.sleep, in order, each as
                     \* the interval [lo, hi] of milliseconds holding it
    log,             \* "invoke" / "sleep" events, in order
    result,          \* value returned by retry_with_exponential_backoff
    raised,          \* exception class that left retry_with_exponential_backoff
    file,            \* the UploadFile of the request
    gate,            \* outcome of validate_file for the request
    pc,              \* position inside the /api/parse endpoint
    extraction,      \* outcome of GPT4oService.parse_invoice
    response,        \* what the endpoint answered
    tree,            \* the invoice dictionary given to the confidence gate
    verdict,         \* what validate_confidence returned for it
    warned,          \* the warnings validate_confidence has logged
    overall_score    \* what _calculate_overall_confidence returned for it

vars == <<func, max_retries, initial_delay, backoff_factor, jitter, attempt,
          rpc, calls, sleeps, log, result, raised, file, gate,
          pc, extraction, response, tree, verdict,
          warned, overall_score>>

retryVars == <<func, max_retries, initial_delay, backoff_factor, jitter,
               attempt, rpc, calls, sleeps, log, result, raised>>

gateVars == <<file, gate>>

endpointVars == <<pc, extraction, response>>

scoreVars == <<tree, verdict, warned, overall_score>>

None == "None"

(* Python's None as a returned value, and the values an operation returns. *)
PyNone == [tag |-> "None", id |-> 0]
NoResult == [tag |-> "unset", id |-> 0]
Val(i) == [tag |-> "value", id |-> i]

(***************************************************************************)
(* Bounds of the model.                                                    *)
(***************************************************************************)
MaxRetriesBound == 3
OverBy == 2
MaxItemsBound == 1

(***************************************************************************)
(* Exceptions.  An except clause matches by class membership, so each      *)
(* class is given with its ancestors.                                      *)
(***************************************************************************)
Superclasses ==
    [RateLimitError  |-> {"RateLimitError", "OpenAIError", "Exception"},
     APITimeoutError |-> {"APITimeoutError", "OpenAIError", "Exception"},
     OpenAIError     |-> {"OpenAIError", "Exception"},
     ValueError      |-> {"ValueError", "Exception"},
     StopAsyncIteration |-> {"StopAsyncIteration", "Exception"},
     TimeoutError    |-> {"TimeoutError", "OSError", "Exception"},
     InvoiceParsingError |-> {"InvoiceParsingError", "Exception"},
     CancelledError  |-> {"CancelledError", "BaseException"}]

ErrorClasses == {"RateLimitError", "APITimeoutError", "OpenAIError", "ValueError"}

retryable_errors == {"RateLimitError", "APITimeoutError", "OpenAIError"}

(* Variant: every Exception is treated as retryable.                       *)
IsRetryableAny(exc) == "Exception" \in Superclasses[exc]

IsRetryable(exc) == Superclasses[exc] \cap retryable_errors # {}

Return(v) == [kind |-> "return", value |-> v, exc |-> None]
Raise(c)  == [kind |-> "raise", value |-> PyNone, exc |-> c]

(* The operation is a script of outcomes, one per invocation; invoked more *)
(* often than the script is long, it raises StopAsyncIteration.            *)
Outcome(n) == IF n \in DOMAIN func THEN func[n] ELSE Raise("StopAsyncIteration")

ScriptLen == MaxRetriesBound + 1

Scripts ==
    {s \in [1..ScriptLen -> {"return"} \cup ErrorClasses] : TRUE}

MkScript(s) ==
    [i \in 1..ScriptLen |-> IF s[i] = "return" THEN Return(Val(i)) ELSE Raise(s[i])]

(***************************************************************************)
(* retry_with_exponential_backoff                                          *)
(***************************************************************************)
DefaultMaxRetries == 3
DefaultInitialDelay == 1000
DefaultBackoffFactor == 2

RECURSIVE Pow(_, _)
Pow(b, e) == IF e <= 0 THEN 1 ELSE b * Pow(b, e - 1)

(* Variant: the exponent is one too large.                                 *)
BaseDelayShifted(init, factor, att) == init * Pow(factor, att + 1)

BaseDelay(init, factor, att) == init * Pow(factor, att)

(* A delay is a real number of milliseconds; it is held as the interval    *)
(* [lo, hi] that contains it, a single point when the delay is known       *)
(* exactly.                                                                *)
Exact(d) == [lo |-> d, hi |-> d]

(* random.uniform(0.5, 1.5) gives any float of the interval.  The interval *)
(* is cut into cells of JitterStep percent that cover it without gaps, and *)
(* a draw is the cell the factor falls in.                                 *)
JitterStep == 50

JitterFactors ==
    {[lo |-> 50 + k * JitterStep, hi |-> 50 + (k + 1) * JitterStep] :
        k \in 0..((100 \div JitterStep) - 1)}

(* Variant: the jitter spreads the delay by 100% instead of 50%.           *)
JitteredWide(d, jitter_factor) ==
    [lo |-> (d * (2 * jitter_factor.lo - 100)) \div 100,
     hi |-> (d * (2 * jitter_factor.hi - 100)) \div 100]

(* delay * jitter_factor, for every factor of the cell.                    *)
Jittered(d, jitter_factor) ==
    [lo |-> (d * jitter_factor.lo) \div 100,
     hi |-> (d * jitter_factor.hi) \div 100]

(* Variants: the executor gives up one attempt early, or one late.         *)
ExhaustedEarly(att, maxr) == att + 1 >= maxr
ExhaustedLate(att, maxr) == att > maxr

Exhausted(att, maxr) == att >= maxr

InRange(att, maxr) == att >= 0 /\ att < maxr + 1

(* Entry: the for loop over range(max_retries + 1) starts, or is empty.    *)
Enter ==
    /\ rpc = "start"
    /\ IF InRange(0, max_retries)
       THEN /\ rpc' = "call"
            /\ result' = result
       ELSE /\ rpc' = "returned"
            /\ result' = PyNone
    /\ attempt' = 0
    /\ UNCHANGED <<func, max_retries, initial_delay, backoff_factor, jitter,
                   calls, sleeps, log, raised>>

(* await func(...) returns: the value is returned at once.                 *)
FuncReturns ==
    /\ rpc = "call"
    /\ Outcome(calls + 1).kind = "return"
    /\ calls' = calls + 1
    /\ log' = Append(log, "invoke")
    /\ result' = Outcome(calls + 1).value
    /\ rpc' = "returned"
    /\ UNCHANGED <<func, max_retries, initial_delay, backoff_factor, jitter,
                   attempt, sleeps, raised>>

(* await func(...) raises one of retryable_errors: re-raise when the       *)
(* retries are exhausted, else compute the delay and start sleeping.       *)
FuncRaisesRetryable ==
    /\ rpc = "call"
    /\ Outcome(calls + 1).kind = "raise"
    /\ IsRetryable(Outcome(calls + 1).exc)
    /\ calls' = calls + 1
    /\ IF Exhausted(attempt, max_retries)
       THEN /\ raised' = Outcome(calls + 1).exc
            /\ rpc' = "raised"
            /\ log' = Append(log, "invoke")
            /\ sleeps' = sleeps
       ELSE /\ \E jitter_factor \in JitterFactors :
                 LET delay == BaseDelay(initial_delay, backoff_factor, attempt)
                 IN  sleeps' = Append(sleeps,
                                      IF jitter THEN Jittered(delay, jitter_factor)
                                                ELSE Exact(delay))
            /\ rpc' = "sleeping"
            /\ log' = log \o <<"invoke", "sleep">>
            /\ raised' = raised
    /\ UNCHANGED <<func, max_retries, initial_delay, backoff_factor, jitter,
                   attempt, result>>

(* await func(...) raises any other Exception: propagated immediately.     *)
FuncRaisesOther ==
    /\ rpc = "call"
    /\ Outcome(calls + 1).kind = "raise"
    /\ ~IsRetryable(Outcome(calls + 1).exc)
    /\ calls' = calls + 1
    /\ log' = Append(log, "invoke")
    /\ raised' = Outcome(calls + 1).exc
    /\ rpc' = "raised"
    /\ UNCHANGED <<func, max_retries, initial_delay, backoff_factor, jitter,
                   attempt, sleeps, result>>

(* asyncio.sleep(delay) completes: next iteration of the for loop.         *)
SleepDone ==
    /\ rpc = "sleeping"
    /\ attempt' = attempt + 1
    /\ IF InRange(attempt + 1, max_retries)
       THEN /\ rpc' = "call"
            /\ result' = result
       ELSE /\ rpc' = "returned"
            /\ result' = PyNone
    /\ UNCHANGED <<func, max_retries, initial_delay, backoff_factor, jitter,
                   calls, sleeps, log, raised>>

(* The enclosing task is cancelled while the executor awaits func(...) or  *)
(* asyncio.sleep(delay): CancelledError is raised at the await; it is not  *)
(* an Exception, so neither except clause catches it and it leaves the     *)
(* executor.                                                               *)
Cancelled ==
    /\ rpc \in {"call", "sleeping"}
    /\ IF rpc = "call"
       THEN /\ calls' = calls + 1
            /\ log' = Append(log, "invoke")
       ELSE /\ calls' = calls
            /\ log' = log
    /\ raised' = "CancelledError"
    /\ rpc' = "raised"
    /\ UNCHANGED <<func, max_retries, initial_delay, backoff_factor, jitter,
                   attempt, sleeps, result>>

(***************************************************************************)
(* validate_file                                                           *)
(***************************************************************************)
MAX_FILE_SIZE == 5 * 1024 * 1024

ALLOWED_MIME_TYPES ==
    {"application/pdf", "text/plain", "text/markdown",
     "image/jpeg", "image/png", "image/tiff", "image/bmp", "image/webp",
     "image/heic", "image/heif", "image/gif"}

GENERIC_TYPES == {"application/octet-stream", "text/plain", "application/x-empty"}

NoContent == [len |-> 0, magic |-> None]

HTTPException(status, detail) ==
    [kind |-> "raise", status_code |-> status, detail |-> detail,
     content |-> NoContent, mime |-> None]

NoGate ==
    [kind |-> "none", status_code |-> 0, detail |-> None,
     content |-> NoContent, mime |-> None]

Accepted(content, mime) ==
    [kind |-> "return", status_code |-> 200, detail |-> None,
     content |-> content, mime |-> mime]

(* magic.Magic(mime=True).from_buffer(content): the type sniffed from the  *)
(* bytes, carried by the content itself.                                   *)
from_buffer(content) == content.magic

Falsy(v) == v = None \/ v = ""

SpecificRejected(detected_mime) ==
    detected_mime \notin GENERIC_TYPES /\ detected_mime \notin ALLOWED_MIME_TYPES

(* Variant: an absent declared type is not rejected.                       *)
GenericRejectedLax(detected_mime, declared_content_type) ==
    /\ detected_mime \in GENERIC_TYPES
    /\ ~Falsy(declared_content_type)
    /\ declared_content_type \notin ALLOWED_MIME_TYPES

(* Variant: a generic sniffed type that is itself on the list is let       *)
(* through without looking at the declared type.                           *)
GenericRejectedUnlessListed(detected_mime, declared_content_type) ==
    /\ detected_mime \in GENERIC_TYPES
    /\ detected_mime \notin ALLOWED_MIME_TYPES
    /\ (Falsy(declared_content_type) \/ declared_content_type \notin ALLOWED_MIME_TYPES)

GenericRejected(detected_mime, declared_content_type) ==
    /\ detected_mime \in GENERIC_TYPES
    /\ (Falsy(declared_content_type) \/ declared_content_type \notin ALLOWED_MIME_TYPES)

(* Variant: the comparison is made only for sniffed types off the list.    *)
SpoofedLax(detected_mime, declared_content_type) ==
    /\ ~Falsy(declared_content_type)
    /\ declared_content_type \in ALLOWED_MIME_TYPES
    /\ detected_mime \notin GENERIC_TYPES
    /\ detected_mime \notin ALLOWED_MIME_TYPES
    /\ detected_mime # declared_content_type

Spoofed(detected_mime, declared_content_type) ==
    /\ ~Falsy(declared_content_type)
    /\ declared_content_type \in ALLOWED_MIME_TYPES
    /\ detected_mime \notin GENERIC_TYPES
    /\ detected_mime # declared_content_type

(* Variant: the declared type is always returned.                          *)
FinalMimeDeclared(detected_mime, declared_content_type) == declared_content_type

FinalMime(detected_mime, declared_content_type) ==
    IF detected_mime \notin GENERIC_TYPES THEN detected_mime ELSE declared_content_type

(* Variant: the limit itself is rejected.                                  *)
TooLargeInclusive(len) == len >= MAX_FILE_SIZE

TooLarge(len) == len > MAX_FILE_SIZE

(* Variant: the type checks run before the emptiness and size checks.      *)
validate_file_types_first(f) ==
    LET content == f.content
        detected_mime == from_buffer(content)
        declared_content_type == f.content_type
    IN  IF SpecificRejected(detected_mime)
             THEN HTTPException(415, "UnsupportedType")
        ELSE IF GenericRejected(detected_mime, declared_content_type)
             THEN HTTPException(415, "UnsupportedType")
        ELSE IF Spoofed(detected_mime, declared_content_type)
             THEN HTTPException(415, "TypeMismatch")
        ELSE IF content.len = 0 THEN HTTPException(400, "EmptyInput")
        ELSE IF TooLarge(content.len) THEN HTTPException(413, "PayloadTooLarge")
        ELSE Accepted(content, FinalMime(detected_mime, declared_content_type))

validate_file(f) ==
    LET content == f.content
        detected_mime == from_buffer(content)
        declared_content_type == f.content_type
    IN  IF content.len = 0 THEN HTTPException(400, "EmptyInput")
        ELSE IF TooLarge(content.len) THEN HTTPException(413, "PayloadTooLarge")
        ELSE IF SpecificRejected(detected_mime)
             THEN HTTPException(415, "UnsupportedType")
        ELSE IF GenericRejected(detected_mime, declared_content_type)
             THEN HTTPException(415, "UnsupportedType")
        ELSE IF Spoofed(detected_mime, declared_content_type)
             THEN HTTPException(415, "TypeMismatch")
        ELSE Accepted(content, FinalMime(detected_mime, declared_content_type))

Lengths ==
    {0, 1, MAX_FILE_SIZE - 1, MAX_FILE_SIZE}
        \cup ((MAX_FILE_SIZE + 1)..(MAX_FILE_SIZE + OverBy))

SniffedTypes ==
    ALLOWED_MIME_TYPES \cup
        {"application/zip", "application/x-dosexec",
         "application/octet-stream", "application/x-empty"}

DeclaredTypes ==
    ALLOWED_MIME_TYPES \cup
        {None, "", "application/zip", "application/octet-stream"}

Uploads ==
    {[content |-> [len |-> n, magic |-> m], content_type |-> d] :
        n \in Lengths, m \in SniffedTypes, d \in DeclaredTypes}

NoFile == [content |-> NoContent, content_type |-> None]

(* The gate applied to the request's upload.                               *)
Validate ==
    /\ gate = NoGate
    /\ file # NoFile
    /\ gate' = validate_file(file)
    /\ UNCHANGED <<file>>

(***************************************************************************)
(* Invoice trees.  A field is a FieldValue with a confidence, a key that   *)
(* is not in the dictionary, or a key that is there and holds None (what   *)
(* model_dump() gives for an Optional field that is not set); confidences  *)
(* are integers in hundredths (0.50 = 50).                                 *)
(***************************************************************************)
Field(c) == [present |-> TRUE, exists |-> TRUE, confidence |-> c]
Missing  == [present |-> FALSE, exists |-> FALSE, confidence |-> 0]
Null     == [present |-> FALSE, exists |-> TRUE, confidence |-> 0]

(* Variant: the critical fields are visited in the opposite order.         *)
CRITICAL_FIELDS_reversed ==
    <<"invoice.total_amount", "invoice.due_date", "invoice.issue_date",
      "invoice.number", "customer.name", "supplier.name">>

CRITICAL_FIELDS ==
    <<"supplier.name", "customer.name", "invoice.number",
      "invoice.issue_date", "invoice.due_date", "invoice.total_amount">>

(* Variant: the schema requires the total amount as well.                  *)
RequiredPathsWithTotal ==
    {"supplier.name", "customer.name", "invoice.number",
     "invoice.issue_date", "invoice.due_date", "invoice.total_amount"}

(* Fields declared with Field(...) in SupplierInfo, CustomerInfo and       *)
(* InvoiceSummary; every other field of the schema is Optional.            *)
RequiredPaths ==
    {"supplier.name", "customer.name", "invoice.number",
     "invoice.issue_date", "invoice.due_date"}

SchemaPaths ==
    <<"supplier.name", "customer.name", "invoice.number",
      "invoice.issue_date", "invoice.due_date", "invoice.total_amount",
      "invoice.po_number">>

MaxLineItems == 50

WARNING_THRESHOLD == 90
REJECTION_THRESHOLD == 50

Range(seq) == {seq[i] : i \in DOMAIN seq}

(* All scored fields of a tree, in traversal order: the summary fields,    *)
(* then each line item's fields, then the keys the schema does not know.   *)
RECURSIVE ItemFields(_)
ItemFields(items) ==
    IF items = <<>> THEN <<>>
    ELSE <<Head(items).description, Head(items).total>> \o ItemFields(Tail(items))

(* Variant: only the summary fields are traversed.                         *)
AllFieldsSummaryOnly(d) ==
    [i \in DOMAIN SchemaPaths |-> d.fields[SchemaPaths[i]]]

AllFields(d) ==
    [i \in DOMAIN SchemaPaths |-> d.fields[SchemaPaths[i]]]
        \o ItemFields(d.line_items) \o <<d.extra>>

RECURSIVE SumConfidence(_)
SumConfidence(fs) ==
    IF fs = <<>> THEN 0
    ELSE (IF Head(fs).present THEN Head(fs).confidence ELSE 0)
            + SumConfidence(Tail(fs))

RECURSIVE CountConfidence(_)
CountConfidence(fs) ==
    IF fs = <<>> THEN 0
    ELSE (IF Head(fs).present THEN 1 ELSE 0) + CountConfidence(Tail(fs))

RECURSIVE Gcd(_, _)
Gcd(a, b) == IF b = 0 THEN a ELSE Gcd(b, a % b)

Abs(x) == IF x < 0 THEN -x ELSE x

(* An exact fraction num / den of hundredths, in lowest terms.             *)
Fraction(n, d) ==
    LET g == Gcd(Abs(n), d)
    IN  IF n = 0 THEN [num |-> 0, den |-> 1]
        ELSE [num |-> n \div g, den |-> d \div g]

Zero == [num |-> 0, den |-> 1]

(* sum(confidence_scores) / len(confidence_scores), 0.0 without scores.    *)
_calculate_overall_confidence(d) ==
    LET fs == AllFields(d)
    IN  IF CountConfidence(fs) = 0 THEN Zero
        ELSE Fraction(SumConfidence(fs), CountConfidence(fs))

(* Variant: the hundredths are cut off, not rounded.                       *)
Round2Down(x, tie_up) == x.num \div x.den

(* round(x, 2) of the float x: the nearest hundredth.  A mean that is      *)
(* halfway between two hundredths is held as a binary float just below or  *)
(* just above the half, which the hundredths do not determine: tie_up      *)
(* tells the side it falls on.                                             *)
Round2(x, tie_up) ==
    LET q == x.num \div x.den
        r == x.num % x.den
    IN  IF 2 * r < x.den THEN q
        ELSE IF 2 * r > x.den THEN q + 1
        ELSE IF tie_up THEN q + 1 ELSE q

(* The records validate_confidence passes to logger.warning.               *)
ModerateWarning(field_path) == [kind |-> "moderate confidence", field |-> field_path]
NoScoreWarning(field_path) == [kind |-> "no confidence score", field |-> field_path]

(* Variant: an absent field reads as a confidence of 0.0.                  *)
_get_field_confidence_or_zero(d, field_path) ==
    [value |-> IF d.fields[field_path].present THEN d.fields[field_path]
               ELSE Field(0),
     logged |-> <<>>]

(* The confidence at field_path, or None for a key that is not there; a    *)
(* key that is there without a confidence gives None and a logged warning. *)
_get_field_confidence(d, field_path) ==
    LET current == d.fields[field_path]
    IN  [value |-> current,
         logged |-> IF current.exists /\ ~current.present
                    THEN <<NoScoreWarning(field_path)>>
                    ELSE <<>>]

(* Variant: the rejection threshold itself is rejected.                    *)
BelowRejectionInclusive(confidence) == confidence <= REJECTION_THRESHOLD

BelowRejection(confidence) == confidence < REJECTION_THRESHOLD

(* Variant: the warning threshold itself is warned about.                  *)
BelowWarningInclusive(confidence) == confidence <= WARNING_THRESHOLD

BelowWarning(confidence) == confidence < WARNING_THRESHOLD

(* Variant: a rejection for low confidence reports 0.0 as a rejection for  *)
(* a missing field does.                                                   *)
RejectedOverallForced(d) == Zero

(* The overall confidence returned with a rejection for low confidence.    *)
RejectedOverall(d) == _calculate_overall_confidence(d)

(* The loop of validate_confidence over CRITICAL_FIELDS from index i on.   *)
RECURSIVE CheckCritical(_, _, _)
CheckCritical(d, i, logged) ==
    IF i > Len(CRITICAL_FIELDS)
    THEN [is_valid |-> TRUE, error |-> None, field |-> None,
          overall_confidence |-> _calculate_overall_confidence(d),
          logged |-> logged]
    ELSE LET field_path == CRITICAL_FIELDS[i]
             got == _get_field_confidence(d, field_path)
             c == got.value
             log_now == logged \o got.logged
         IN  IF ~c.present
             THEN [is_valid |-> FALSE, error |-> "missing", field |-> field_path,
                   overall_confidence |-> Zero, logged |-> log_now]
             ELSE IF BelowRejection(c.confidence)
             THEN [is_valid |-> FALSE, error |-> "insufficient confidence",
                   field |-> field_path,
                   overall_confidence |-> RejectedOverall(d),
                   logged |-> log_now]
             ELSE IF BelowWarning(c.confidence)
             THEN CheckCritical(d, i + 1,
                                Append(log_now, ModerateWarning(field_path)))
             ELSE CheckCritical(d, i + 1, log_now)

(* The returned tuple (is_valid, error_message, overall_confidence); the   *)
(* error message is kept as its kind and the field path it carries.        *)
validate_confidence(d) ==
    LET r == CheckCritical(d, 1, <<>>)
    IN  [is_valid |-> r.is_valid, error |-> r.error, field |-> r.field,
         overall_confidence |-> r.overall_confidence]

(* The records validate_confidence and _get_field_confidence have passed   *)
(* to logger.warning, in order.                                            *)
logged_warnings(d) == CheckCritical(d, 1, <<>>).logged

NoVerdict ==
    [is_valid |-> FALSE, error |-> "unset", field |-> None,
     overall_confidence |-> Zero]

NoOverall == [num |-> -1, den |-> 1]

(* One call of validate_confidence on the dictionary at hand.              *)
Score ==
    /\ verdict = NoVerdict
    /\ verdict' = validate_confidence(tree)
    /\ warned' = logged_warnings(tree)
    /\ UNCHANGED <<tree, overall_score>>

(* One call of _calculate_overall_confidence on the dictionary at hand.    *)
Aggregate ==
    /\ overall_score = NoOverall
    /\ overall_score' = _calculate_overall_confidence(tree)
    /\ UNCHANGED <<tree, verdict, warned>>

(***************************************************************************)
(* GPT4oService.parse_invoice                                              *)
(***************************************************************************)
startswith(str, prefix) ==
    Len(str) >= Len(prefix) /\ SubSeq(str, 1, Len(prefix)) = prefix

_detect_format(mime_type) ==
    IF mime_type = "application/pdf" THEN "pdf"
    ELSE IF startswith(mime_type, "image/") THEN "image"
    ELSE IF startswith(mime_type, "text/") THEN "text"
    ELSE "text"

Malformed == [json |-> FALSE, fields |-> [p \in Range(SchemaPaths) |-> Missing],
              line_items |-> <<>>, extra |-> Missing]

(* Variant: only the lower end of the confidence range is enforced.        *)
InConfidenceRangeLower(c) == c >= 0

InConfidenceRange(c) == c >= 0 /\ c <= 100

(* Construction of InvoiceResponse: required fields present, every scored *)
(* field and the meta's overall confidence within [0.0, 1.0], at most 50   *)
(* line items, each with a description.                                    *)
SchemaValid(d, overall) ==
    /\ \A p \in RequiredPaths : d.fields[p].present
    /\ \A p \in Range(SchemaPaths) :
          d.fields[p].present => InConfidenceRange(d.fields[p].confidence)
    /\ Len(d.line_items) <= MaxLineItems
    /\ \A i \in DOMAIN d.line_items :
          /\ d.line_items[i].description.present
          /\ InConfidenceRange(d.line_items[i].description.confidence)
          /\ d.line_items[i].total.present =>
                InConfidenceRange(d.line_items[i].total.confidence)
    /\ InConfidenceRange(overall)

NoInvoice ==
    [fields |-> [p \in Range(SchemaPaths) |-> Missing], line_items |-> <<>>,
     extra |-> Missing,
     meta |-> [source_format |-> None, overall_confidence |-> 0]]

(* An attribute of the validated model: an Optional field the reply does   *)
(* not give defaults to None.                                              *)
validated_field(f) == IF f.present THEN f ELSE Null

(* The validated model: keys the schema does not know are dropped.         *)
InvoiceResponse(d, source_format, overall) ==
    [fields |-> [p \in Range(SchemaPaths) |-> validated_field(d.fields[p])],
     line_items |-> [i \in DOMAIN d.line_items |->
                        [description |-> validated_field(d.line_items[i].description),
                         total |-> validated_field(d.line_items[i].total)]],
     extra |-> Missing,
     meta |-> [source_format |-> source_format, overall_confidence |-> overall]]

ServiceRaise(exc, message) ==
    [kind |-> "raise", exc |-> exc, message |-> message, invoice |-> NoInvoice]

ServiceReturn(inv) ==
    [kind |-> "return", exc |-> None, message |-> None, invoice |-> inv]

NoExtraction ==
    [kind |-> "none", exc |-> None, message |-> None, invoice |-> NoInvoice]

(* Variant: a response that is not JSON is left to the general handler.    *)
parse_invoice_no_json_clause(retry_kind, retry_exc, value, mime_type, tie_up) ==
    IF retry_kind = "raised"
    THEN ServiceRaise("InvoiceParsingError", "Failed to parse invoice")
    ELSE IF value = PyNone
    THEN ServiceRaise("InvoiceParsingError", "Failed to parse invoice")
    ELSE IF ~value.json
    THEN ServiceRaise("InvoiceParsingError", "Failed to parse invoice")
    ELSE LET overall == Round2(_calculate_overall_confidence(value), tie_up)
         IN  IF ~SchemaValid(value, overall)
             THEN ServiceRaise("InvoiceParsingError", "Invalid response structure")
             ELSE ServiceReturn(
                    InvoiceResponse(value, _detect_format(mime_type), overall))

(* Variant: an exception of the remote call leaves the service as it is.   *)
parse_invoice_reraising(retry_kind, retry_exc, value, mime_type, tie_up) ==
    IF retry_kind = "raised"
    THEN ServiceRaise(retry_exc, "Failed to parse invoice")
    ELSE IF value = PyNone
    THEN ServiceRaise("InvoiceParsingError", "Failed to parse invoice")
    ELSE IF ~value.json
    THEN ServiceRaise("InvoiceParsingError", "malformed JSON")
    ELSE LET overall == Round2(_calculate_overall_confidence(value), tie_up)
         IN  IF ~SchemaValid(value, overall)
             THEN ServiceRaise("InvoiceParsingError", "Invalid response structure")
             ELSE ServiceReturn(
                    InvoiceResponse(value, _detect_format(mime_type), overall))

(* What parse_invoice does once retry_with_exponential_backoff has left:   *)
(* every Exception is wrapped into InvoiceParsingError, anything else      *)
(* passes through.                                                         *)
parse_invoice(retry_kind, retry_exc, value, mime_type, tie_up) ==
    IF retry_kind = "raised"
    THEN IF "Exception" \in Superclasses[retry_exc]
         THEN ServiceRaise("InvoiceParsingError", "Failed to parse invoice")
         ELSE ServiceRaise(retry_exc, None)
    ELSE IF value = PyNone
    THEN ServiceRaise("InvoiceParsingError", "Failed to parse invoice")
    ELSE IF ~value.json
    THEN ServiceRaise("InvoiceParsingError", "malformed JSON")
    ELSE LET overall == Round2(_calculate_overall_confidence(value), tie_up)
         IN  IF ~SchemaValid(value, overall)
             THEN ServiceRaise("InvoiceParsingError", "Invalid response structure")
             ELSE ServiceReturn(
                    InvoiceResponse(value, _detect_format(mime_type), overall))

(***************************************************************************)
(* POST /api/parse                                                         *)
(***************************************************************************)
HttpError(status, detail) ==
    [status_code |-> status, detail |-> detail, invoice |-> NoInvoice]

HttpOk(inv) == [status_code |-> 200, detail |-> None, invoice |-> inv]

NoResponse == [status_code |-> 0, detail |-> None, invoice |-> NoInvoice]

(* An exception no except clause of the endpoint catches leaves it: no     *)
(* response is built.                                                      *)
Propagated(exc) == [status_code |-> 0, detail |-> exc, invoice |-> NoInvoice]

(* Variant: whatever leaves the service is answered as a failed            *)
(* extraction.                                                             *)
endpoint_except_catching_all(exc) ==
    IF "TimeoutError" \in Superclasses[exc]
    THEN HttpError(504, "Processing timeout")
    ELSE HttpError(503, "ExtractionFailed")

(* The except clauses of the endpoint, tried in order for an exception    *)
(* that left the service: TimeoutError, InvoiceParsingError, Exception.    *)
endpoint_except(exc) ==
    IF "TimeoutError" \in Superclasses[exc]
    THEN HttpError(504, "Processing timeout")
    ELSE IF "InvoiceParsingError" \in Superclasses[exc]
    THEN HttpError(503, "ExtractionFailed")
    ELSE IF "Exception" \in Superclasses[exc]
    THEN HttpError(503, "Service unavailable")
    ELSE Propagated(exc)

(* invoice_response.model_dump(): the validated invoice as a dictionary;   *)
(* an attribute that is None is a key holding None.                        *)
model_dump(inv) ==
    [fields |-> [p \in Range(SchemaPaths) |-> inv.fields[p]],
     line_items |-> [i \in DOMAIN inv.line_items |->
                        [description |-> inv.line_items[i].description,
                         total |-> inv.line_items[i].total]],
     extra |-> Missing,
     meta |-> inv.meta]

(* Variant: only a missing critical field stops the endpoint.              *)
GateRejectsOnlyMissing(v) == ~v.is_valid /\ v.error = "missing"

GateRejects(v) == ~v.is_valid

(* Variant: a type rejection does not stop the endpoint.                   *)
GateAcceptsLax(g) == g.kind = "return" \/ g.status_code = 415

GateAccepts(g) == g.kind = "return"

(* Step 1: validate_file; an HTTPException leaves the endpoint unchanged,  *)
(* otherwise the service is built and awaits the retry executor.           *)
EndpointValidate ==
    /\ pc = "validate"
    /\ gate' = validate_file(file)
    /\ IF GateAccepts(gate')
       THEN /\ pc' = "extract"
            /\ rpc' = "start"
            /\ response' = response
       ELSE /\ pc' = "done"
            /\ rpc' = rpc
            /\ response' = HttpError(gate'.status_code, gate'.detail)
    /\ UNCHANGED <<file, extraction, func, max_retries, initial_delay,
                   backoff_factor, jitter, attempt, calls, sleeps, log,
                   result, raised, scoreVars>>

(* Steps 2 to 4, once the retry executor has left: the service parses and  *)
(* validates the response, the confidence gate decides, the endpoint       *)
(* answers.                                                                *)
EndpointFinish ==
    /\ pc = "extract"
    /\ rpc \in {"returned", "raised"}
    /\ \E tie_up \in BOOLEAN :
          extraction' = parse_invoice(rpc, raised, result, gate.mime, tie_up)
    /\ IF extraction'.kind = "raise"
       THEN /\ response' = endpoint_except(extraction'.exc)
            /\ UNCHANGED <<tree, verdict, warned>>
       ELSE /\ tree' = model_dump(extraction'.invoice)
            /\ verdict' = validate_confidence(tree')
            /\ warned' = logged_warnings(tree')
            /\ IF GateRejects(verdict')
               THEN response' = HttpError(422, "Invoice quality insufficient")
               ELSE response' = HttpOk(extraction'.invoice)
    /\ pc' = "done"
    /\ UNCHANGED <<file, gate, retryVars, overall_score>>

(***************************************************************************)
(* Specification of one call of retry_with_exponential_backoff.            *)
(***************************************************************************)
InitRetry ==
    /\ func \in {MkScript(s) : s \in Scripts}
    /\ max_retries \in (-1)..MaxRetriesBound
    /\ initial_delay \in {500, 1000}
    /\ backoff_factor \in {2, 3}
    /\ jitter \in BOOLEAN
    /\ attempt = 0
    /\ rpc = "start"
    /\ calls = 0
    /\ sleeps = <<>>
    /\ log = <<>>
    /\ result = NoResult
    /\ raised = None
    /\ file = NoFile
    /\ gate = NoGate
    /\ pc = "idle"
    /\ extraction = NoExtraction
    /\ response = NoResponse
    /\ tree = NoInvoice
    /\ verdict = NoVerdict
    /\ warned = <<>>
    /\ overall_score = NoOverall

NextRetry ==
    \/ Enter /\ UNCHANGED <<gateVars, endpointVars, scoreVars>>
    \/ FuncReturns /\ UNCHANGED <<gateVars, endpointVars, scoreVars>>
    \/ FuncRaisesRetryable /\ UNCHANGED <<gateVars, endpointVars, scoreVars>>
    \/ FuncRaisesOther /\ UNCHANGED <<gateVars, endpointVars, scoreVars>>
    \/ SleepDone /\ UNCHANGED <<gateVars, endpointVars, scoreVars>>

SpecRetry == InitRetry /\ [][NextRetry]_vars

(***************************************************************************)
(* Specification of one call of validate_file.                             *)
(***************************************************************************)
InitGate ==
    /\ file \in Uploads
    /\ gate = NoGate
    /\ func = <<>>
    /\ max_retries = DefaultMaxRetries
    /\ initial_delay = DefaultInitialDelay
    /\ backoff_factor = DefaultBackoffFactor
    /\ jitter = TRUE
    /\ attempt = 0
    /\ rpc = "idle"
    /\ calls = 0
    /\ sleeps = <<>>
    /\ log = <<>>
    /\ result = NoResult
    /\ raised = None
    /\ pc = "idle"
    /\ extraction = NoExtraction
    /\ response = NoResponse
    /\ tree = NoInvoice
    /\ verdict = NoVerdict
    /\ warned = <<>>
    /\ overall_score = NoOverall

NextGate == Validate /\ UNCHANGED <<retryVars, endpointVars, scoreVars>>

SpecGate == InitGate /\ [][NextGate]_vars

(***************************************************************************)
(* Specification of the confidence gate on one invoice dictionary: the     *)
(* six critical fields absent, just below the rejection threshold, on it,  *)
(* or at the warning threshold; an optional field, line items and a key    *)
(* outside the schema absent or scored; and the dictionaries of the        *)
(* repository's tests.                                                     *)
(***************************************************************************)
Tree(fields, items, extra) ==
    [fields |-> fields, line_items |-> items, extra |-> extra]

CriticalChoices == {Missing, Null, Field(49), Field(50), Field(90)}

ItemChoices ==
    {[description |-> Field(60), total |-> Missing],
     [description |-> Field(80), total |-> Field(100)]}

GridTrees ==
    {Tree([p \in Range(SchemaPaths) |->
              IF p = "invoice.po_number" THEN o ELSE c[p]], items, e) :
        c \in [Range(CRITICAL_FIELDS) -> CriticalChoices],
        o \in {Missing, Field(10)},
        items \in UNION {[1..n -> ItemChoices] : n \in 0..MaxItemsBound},
        e \in {Missing, Field(20)}}

CriticalScores(sn, cn, num, idate, ddate, total) ==
    [p \in Range(SchemaPaths) |->
        CASE p = "supplier.name" -> sn
          [] p = "customer.name" -> cn
          [] p = "invoice.number" -> num
          [] p = "invoice.issue_date" -> idate
          [] p = "invoice.due_date" -> ddate
          [] p = "invoice.total_amount" -> total
          [] OTHER -> Missing]

ExampleTrees ==
    {Tree(CriticalScores(Field(75), Field(85), Field(65), Field(99),
                         Field(97), Field(96)), <<>>, Missing),
     Tree(CriticalScores(Field(90), Field(80), Field(70), Field(100),
                         Field(100), Field(60)), <<>>, Missing),
     Tree(CriticalScores(Field(45), Field(99), Field(99), Field(99),
                         Field(99), Field(99)), <<>>, Missing),
     Tree(CriticalScores(Field(95), Missing, Field(98), Field(99),
                         Field(97), Missing), <<>>, Missing),
     Tree([CriticalScores(Field(95), Field(92), Field(98), Field(99),
                          Field(97), Field(96))
              EXCEPT !["invoice.po_number"] = Field(10)], <<>>, Field(20))}

Trees == GridTrees \cup ExampleTrees

InitConfidence ==
    /\ tree \in Trees
    /\ verdict = NoVerdict
    /\ warned = <<>>
    /\ overall_score = NoOverall
    /\ file = NoFile
    /\ gate = NoGate
    /\ func = <<>>
    /\ max_retries = DefaultMaxRetries
    /\ initial_delay = DefaultInitialDelay
    /\ backoff_factor = DefaultBackoffFactor
    /\ jitter = TRUE
    /\ attempt = 0
    /\ rpc = "idle"
    /\ calls = 0
    /\ sleeps = <<>>
    /\ log = <<>>
    /\ result = NoResult
    /\ raised = None
    /\ pc = "idle"
    /\ extraction = NoExtraction
    /\ response = NoResponse

NextConfidence ==
    \/ Score /\ UNCHANGED <<retryVars, gateVars, endpointVars>>
    \/ Aggregate /\ UNCHANGED <<retryVars, gateVars, endpointVars>>

SpecConfidence == InitConfidence /\ [][NextConfidence]_vars

(***************************************************************************)
(* Specification of one request to POST /api/parse: the upload, and the    *)
(* behaviour of the remote model (transient failures, then a last outcome) *)
(* are the inputs; the service calls the retry executor with its defaults. *)
(***************************************************************************)
BaseFields ==
    [p \in Range(SchemaPaths) |->
        IF p = "invoice.po_number" THEN Missing ELSE Field(95)]

Doc(fields, items, extra) ==
    [json |-> TRUE, fields |-> fields, line_items |-> items, extra |-> extra]

Item(c) == [description |-> Field(c), total |-> Missing]

RequestDocs ==
    {Doc([BaseFields EXCEPT !["supplier.name"] = s, !["invoice.total_amount"] = t],
         <<>>, Missing) :
        s \in {Missing, Field(45), Field(95)},
        t \in {Missing, Field(120), Field(95)}}
    \cup {Doc(BaseFields, [i \in 1..n |-> Item(90)], Missing) :
            n \in {1, MaxLineItems + 1}}
    \cup {Doc(BaseFields, <<>>, e) : e \in {Field(20), Field(120)}}
    \cup {Doc([BaseFields EXCEPT !["invoice.po_number"] = Field(-5)], <<>>, Missing),
          Doc(BaseFields, <<Item(101)>>, Missing),
          Doc([BaseFields EXCEPT !["invoice.po_number"] = Field(99)], <<>>, Missing),
          Doc([BaseFields EXCEPT !["invoice.total_amount"] = Field(56)], <<>>, Missing),
          Doc([BaseFields EXCEPT !["invoice.total_amount"] = Missing],
              [i \in 1..(MaxLineItems + 1) |-> Item(90)], Missing)}

Replies == {Malformed} \cup RequestDocs

LastOutcomes ==
    {Return(r) : r \in Replies}
        \cup {Raise(c) : c \in ErrorClasses \cup {"TimeoutError"}}

RequestScripts ==
    UNION {
        {[i \in 1..k |-> IF i < k THEN Raise(pre[i]) ELSE last] :
            pre \in [1..(k - 1) -> retryable_errors], last \in LastOutcomes} :
        k \in 1..(DefaultMaxRetries + 1)}

RequestUploads ==
    {[content |-> [len |-> n, magic |-> m], content_type |-> d] :
        n \in {0, 1, MAX_FILE_SIZE + 1},
        m \in {"application/pdf", "application/zip", "text/plain"},
        d \in {"application/pdf", "image/jpeg", None}}

Init ==
    /\ file \in RequestUploads
    /\ func \in RequestScripts
    /\ gate = NoGate
    /\ max_retries = DefaultMaxRetries
    /\ initial_delay = DefaultInitialDelay
    /\ backoff_factor = DefaultBackoffFactor
    /\ jitter = TRUE
    /\ attempt = 0
    /\ rpc = "idle"
    /\ calls = 0
    /\ sleeps = <<>>
    /\ log = <<>>
    /\ result = NoResult
    /\ raised = None
    /\ pc = "validate"
    /\ extraction = NoExtraction
    /\ response = NoResponse
    /\ tree = NoInvoice
    /\ verdict = NoVerdict
    /\ warned = <<>>
    /\ overall_score = NoOverall

Next ==
    \/ EndpointValidate
    \/ Enter /\ UNCHANGED <<gateVars, endpointVars, scoreVars>>
    \/ FuncReturns /\ UNCHANGED <<gateVars, endpointVars, scoreVars>>
    \/ FuncRaisesRetryable /\ UNCHANGED <<gateVars, endpointVars, scoreVars>>
    \/ FuncRaisesOther /\ UNCHANGED <<gateVars, endpointVars, scoreVars>>
    \/ SleepDone /\ UNCHANGED <<gateVars, endpointVars, scoreVars>>
    \/ EndpointFinish

Spec == Init /\ [][Next]_vars

(***************************************************************************)
(* Specification of one request whose task may be cancelled wherever it is *)
(* suspended: in validate_file's await file.read(), or while the retry     *)
(* executor awaits the remote call or a backoff sleep.                     *)
(***************************************************************************)
(* An upload larger than the spool's in-memory limit has been rolled to    *)
(* disk and is read in a worker thread, which suspends the request.        *)
SpoolMaxSize == 1024 * 1024

CancelledGate ==
    [kind |-> "raise", status_code |-> 0, detail |-> "CancelledError",
     content |-> NoContent, mime |-> None]

(* The task is cancelled while validate_file awaits file.read():           *)
(* CancelledError leaves validate_file and the endpoint, no check of the   *)
(* file has run and the service is not called.                             *)
CancelledInValidate ==
    /\ pc = "validate"
    /\ file.content.len > SpoolMaxSize
    /\ gate' = CancelledGate
    /\ pc' = "done"
    /\ response' = Propagated("CancelledError")
    /\ UNCHANGED <<file, extraction, retryVars, scoreVars>>

NextCancel ==
    \/ Next
    \/ Cancelled /\ UNCHANGED <<gateVars, endpointVars, scoreVars>>
    \/ CancelledInValidate

SpecCancel == Init /\ [][NextCancel]_vars

(***************************************************************************)
(* Properties of retry_with_exponential_backoff (under SpecRetry).         *)
(***************************************************************************)
Terminated == rpc \in {"returned", "raised"}

TransientAt(n) ==
    /\ n \in DOMAIN func
    /\ func[n].kind = "raise"
    /\ func[n].exc \in {"RateLimitError", "APITimeoutError", "OpenAIError"}

FatalAt(n) ==
    /\ n \in DOMAIN func
    /\ func[n].kind = "raise"
    /\ func[n].exc \notin {"RateLimitError", "APITimeoutError", "OpenAIError"}

SucceedsAt(n) == n \in DOMAIN func /\ func[n].kind = "return"

(* C1: for every k in 0..max_retries, an operation that raises a transient *)
(* error on its first k invocations and succeeds on invocation k + 1 is    *)
(* never invoked more than k + 1 times, and once the call has ended it has *)
(* returned the value of invocation k + 1 after exactly k + 1 invocations. *)
C1_SuccessAfterTransients ==
    \A k \in 0..max_retries :
        ((\A i \in 1..k : TransientAt(i)) /\ SucceedsAt(k + 1)) =>
            /\ calls <= k + 1
            /\ Terminated =>
                  /\ rpc = "returned"
                  /\ result = func[k + 1].value
                  /\ calls = k + 1

C1_Witness ==
    /\ rpc = "returned"
    /\ calls = 3
    /\ TransientAt(1) /\ TransientAt(2) /\ SucceedsAt(3)
    /\ result = Val(3)
    /\ max_retries = 3

(* C2: with max_retries >= 0, an operation that raises a transient error   *)
(* on every invocation is invoked at most max_retries + 1 times, and once  *)
(* the call has ended it was invoked exactly max_retries + 1 times and the *)
(* error of the last invocation has been propagated.                       *)
C2_ExhaustionPropagatesLast ==
    (max_retries >= 0 /\ \A i \in 1..(max_retries + 1) : TransientAt(i)) =>
        /\ calls <= max_retries + 1
        /\ Terminated =>
              /\ rpc = "raised"
              /\ calls = max_retries + 1
              /\ raised = func[max_retries + 1].exc

C2_Witness ==
    /\ rpc = "raised"
    /\ max_retries = 3
    /\ calls = 4
    /\ \A i \in 1..4 : TransientAt(i)
    /\ func[3].exc = "RateLimitError"
    /\ func[4].exc = "APITimeoutError"
    /\ raised = "APITimeoutError"

(* C3: a fatal error of any invocation ends the call at that invocation:   *)
(* it is the last invocation, the call has raised that error, and no sleep *)
(* was started after it.                                                   *)
C3_FatalPropagatesImmediately ==
    \A n \in 1..calls :
        FatalAt(n) =>
            /\ calls = n
            /\ rpc = "raised"
            /\ raised = func[n].exc
            /\ Len(sleeps) = n - 1
            /\ log[Len(log)] = "invoke"

C3_Witness ==
    /\ calls = 2
    /\ TransientAt(1)
    /\ FatalAt(2)
    /\ rpc = "raised"
    /\ raised = "ValueError"

(* C4: without jitter the i-th sleep (i from 0) lasts exactly              *)
(* initial_delay * backoff_factor^i; with 1.0 s, factor 2 and 3 retries,   *)
(* the sleeps before the 4th attempt are 1.0 s, 2.0 s, 4.0 s in order.     *)
C4_ExactBackoffDelays ==
    ~jitter =>
        /\ \A i \in 0..(Len(sleeps) - 1) :
              /\ sleeps[i + 1].lo = initial_delay * Pow(backoff_factor, i)
              /\ sleeps[i + 1].hi = initial_delay * Pow(backoff_factor, i)
        /\ (initial_delay = 1000 /\ backoff_factor = 2 /\ max_retries = 3
                /\ calls = 4) =>
              sleeps = <<[lo |-> 1000, hi |-> 1000], [lo |-> 2000, hi |-> 2000],
                         [lo |-> 4000, hi |-> 4000]>>

C4_Witness ==
    /\ ~jitter
    /\ initial_delay = 1000 /\ backoff_factor = 2 /\ max_retries = 3
    /\ calls = 4
    /\ sleeps = <<[lo |-> 1000, hi |-> 1000], [lo |-> 2000, hi |-> 2000],
                  [lo |-> 4000, hi |-> 4000]>>
    /\ rpc = "returned"

(* The greatest total the delays can add up to.                            *)
RECURSIVE TotalDelay(_)
TotalDelay(ds) == IF ds = <<>> THEN 0 ELSE Head(ds).hi + TotalDelay(Tail(ds))

(* C23: with max_retries = 3, initial_delay = 1.0 and backoff_factor = 2.0 *)
(* the delays of one call add up to at most 7 s without jitter and at most *)
(* 10.5 s with jitter; every jittered delay lies within [0.5, 1.5] times   *)
(* its base delay, and every delay without jitter is the base delay.       *)
C23_TotalBackoffBounded ==
    /\ (max_retries = 3 /\ initial_delay = 1000 /\ backoff_factor = 2) =>
          TotalDelay(sleeps) <= (IF jitter THEN 10500 ELSE 7000)
    /\ \A i \in DOMAIN sleeps :
          LET base == initial_delay * Pow(backoff_factor, i - 1)
          IN  /\ sleeps[i].lo <= sleeps[i].hi
              /\ 2 * sleeps[i].lo >= base
              /\ 2 * sleeps[i].hi <= 3 * base
              /\ ~jitter => (sleeps[i].lo = base /\ sleeps[i].hi = base)

C23_Witness ==
    /\ max_retries = 3
    /\ initial_delay = 1000
    /\ backoff_factor = 2
    /\ jitter
    /\ rpc = "raised"
    /\ calls = 4
    /\ \A i \in DOMAIN sleeps : sleeps[i].hi = 1500 * Pow(2, i - 1)
    /\ TotalDelay(sleeps) = 10500

(* The step in which invocation number calls + 1 fails transiently.        *)
TransientFailureStep ==
    /\ rpc = "call"
    /\ calls' = calls + 1
    /\ TransientAt(calls + 1)

(* C25 as stated: after a transient failure a retry is scheduled exactly   *)
(* when the number of attempts made so far is less than max_attempts (the  *)
(* max_retries of the call).                                               *)
C25_Original ==
    [][TransientFailureStep => (rpc' = "sleeping" <=> calls' < max_retries)]_vars

(* C25 amended: after a transient failure a retry is scheduled exactly     *)
(* when the number of attempts made so far is at most max_retries (the     *)
(* index of the failed attempt, counted from 0, is less than max_retries), *)
(* with the delay initial_delay * backoff_factor^index, jittered when      *)
(* jitter is on; otherwise the error is propagated without a sleep.        *)
C25_RetryIffIndexBelowMaxRetries ==
    [][TransientFailureStep =>
          /\ rpc' = "sleeping" <=> calls' <= max_retries
          /\ rpc' = "sleeping" =>
                LET base == initial_delay * Pow(backoff_factor, calls' - 1)
                    d == sleeps'[Len(sleeps')]
                IN  /\ Len(sleeps') = Len(sleeps) + 1
                    /\ d.lo <= d.hi
                    /\ 2 * d.lo >= base /\ 2 * d.hi <= 3 * base
                    /\ ~jitter => (d.lo = base /\ d.hi = base)
          /\ rpc' # "sleeping" =>
                /\ rpc' = "raised"
                /\ raised' = func[calls'].exc
                /\ sleeps' = sleeps]_vars

C25_Witness ==
    /\ max_retries = 3
    /\ calls = 3
    /\ rpc = "sleeping"
    /\ ~jitter
    /\ initial_delay = 500
    /\ backoff_factor = 3
    /\ sleeps = <<[lo |-> 500, hi |-> 500], [lo |-> 1500, hi |-> 1500],
                  [lo |-> 4500, hi |-> 4500]>>

(* C28: in every call invocations and sleeps alternate, starting with an   *)
(* invocation; each sleep follows a transient failure and is followed by   *)
(* another invocation; a terminated call with n invocations has slept      *)
(* n - 1 times and no sleep follows its final invocation.                  *)
C28_InvocationsAndSleepsAlternate ==
    /\ \A i \in DOMAIN log :
          log[i] = (IF i % 2 = 1 THEN "invoke" ELSE "sleep")
    /\ \A k \in DOMAIN sleeps : TransientAt(k) /\ k <= calls
    /\ Terminated =>
          /\ Len(sleeps) = calls - 1
          /\ Len(log) = 2 * calls - 1
          /\ log[Len(log)] = "invoke"

(* C29: for every max_retries, zero and negative values included, the      *)
(* operation is invoked at least once, and the call ends only by returning *)
(* what the last invocation returned or by raising what it raised.         *)
C29_AtLeastOneInvocation ==
    Terminated =>
        /\ calls >= 1
        /\ rpc = "returned" =>
              (func[calls].kind = "return" /\ result = func[calls].value)
        /\ rpc = "raised" =>
              (func[calls].kind = "raise" /\ raised = func[calls].exc)

(***************************************************************************)
(* Properties of validate_file (under SpecGate).                           *)
(***************************************************************************)
Validated == gate.kind # "none"

(* C5: an upload of length 0 is rejected with EmptyInput (400) whatever    *)
(* its sniffed and declared types are.                                     *)
C5_EmptyAlwaysRejected ==
    (Validated /\ file.content.len = 0) =>
        /\ gate.kind = "raise"
        /\ gate.status_code = 400
        /\ gate.detail = "EmptyInput"

C5_Witness ==
    /\ Validated
    /\ file.content.len = 0
    /\ file.content.magic = "application/zip"
    /\ file.content_type = None
    /\ gate.status_code = 400

(* C6: a non-empty upload is rejected with PayloadTooLarge (413) exactly   *)
(* when it is longer than 5,242,880 bytes, whatever its types are.         *)
C6_TooLargeIffOverLimit ==
    (Validated /\ file.content.len # 0) =>
        ((gate.kind = "raise" /\ gate.status_code = 413
            /\ gate.detail = "PayloadTooLarge")
         <=> file.content.len > 5242880)

C6_Witness ==
    /\ Validated
    /\ file.content.len = 5242881
    /\ file.content.magic = "application/zip"
    /\ file.content_type = "application/pdf"
    /\ gate.status_code = 413

(* An upload that passes the emptiness and size checks.                    *)
SizeOk == file.content.len > 0 /\ file.content.len <= 5242880

DeclaredAllowed == file.content_type \in ALLOWED_MIME_TYPES

SniffedSpecific == file.content.magic \notin GENERIC_TYPES

(* C7 as stated: declared type allow-listed, sniffed type specific and     *)
(* different from it: rejected with TypeMismatch.                          *)
C7_Original ==
    (Validated /\ SizeOk /\ DeclaredAllowed /\ SniffedSpecific
        /\ file.content.magic # file.content_type) =>
        (gate.kind = "raise" /\ gate.detail = "TypeMismatch")

(* C7 amended: such an upload is rejected with 415; the category is        *)
(* TypeMismatch when the sniffed type is itself allow-listed, and          *)
(* UnsupportedType when it is not (a ZIP declared as application/pdf).     *)
C7_MismatchOrUnsupported ==
    (Validated /\ SizeOk /\ DeclaredAllowed /\ SniffedSpecific
        /\ file.content.magic # file.content_type) =>
        /\ gate.kind = "raise"
        /\ gate.status_code = 415
        /\ gate.detail = IF file.content.magic \in ALLOWED_MIME_TYPES
                         THEN "TypeMismatch" ELSE "UnsupportedType"

C7_Witness ==
    /\ Validated
    /\ SizeOk
    /\ file.content.magic = "image/png"
    /\ file.content_type = "application/pdf"
    /\ gate.detail = "TypeMismatch"

(* C9: an accepted upload is returned with its bytes unchanged and with    *)
(* the sniffed type when that is specific, the declared type otherwise; a  *)
(* PDF declared as application/pdf is accepted as application/pdf.         *)
C9_AcceptReturnsBytesAndResolvedType ==
    /\ gate.kind = "return" =>
          /\ gate.content = file.content
          /\ gate.mime = IF file.content.magic \notin GENERIC_TYPES
                         THEN file.content.magic ELSE file.content_type
    /\ (Validated /\ SizeOk /\ file.content.magic = "application/pdf"
            /\ file.content_type = "application/pdf") =>
          (gate.kind = "return" /\ gate.mime = "application/pdf")

C9_Witness ==
    /\ gate.kind = "return"
    /\ file.content.magic = "application/pdf"
    /\ file.content_type = "application/pdf"
    /\ gate.mime = "application/pdf"
    /\ gate.content = file.content
    /\ file.content.len = 5242880

(* C10: whenever validate_file returns, the returned type is allow-listed  *)
(* and the returned content is non-empty and at most 5,242,880 bytes.      *)
C10_ReturnedTypeAllowedAndSized ==
    gate.kind = "return" =>
        /\ gate.mime \in ALLOWED_MIME_TYPES
        /\ gate.content.len > 0
        /\ gate.content.len <= 5242880

C10_Witness ==
    /\ gate.kind = "return"
    /\ file.content.magic = "application/octet-stream"
    /\ file.content_type = "image/heic"
    /\ gate.mime = "image/heic"

(* C11: when the sniffed type of a non-empty upload within the size limit  *)
(* is generic (application/octet-stream, text/plain, application/x-empty), *)
(* validate_file accepts exactly when the declared type is present and     *)
(* allow-listed, and otherwise rejects with UnsupportedType (415), also    *)
(* when the sniffed generic type, such as text/plain, is on the allow-list.*)
SniffedGeneric ==
    file.content.magic \in
        {"application/octet-stream", "text/plain", "application/x-empty"}

DeclaredPresent == file.content_type # None /\ file.content_type # ""

C11_GenericNeedsDeclaredAllowed ==
    (Validated /\ SizeOk /\ SniffedGeneric) =>
        /\ gate.kind = "return" <=> (DeclaredPresent /\ DeclaredAllowed)
        /\ gate.kind # "return" =>
              /\ gate.kind = "raise"
              /\ gate.status_code = 415
              /\ gate.detail = "UnsupportedType"

C11_Witness ==
    /\ Validated
    /\ SizeOk
    /\ file.content.magic = "text/plain"
    /\ "text/plain" \in ALLOWED_MIME_TYPES
    /\ file.content_type = None
    /\ gate.kind = "raise"
    /\ gate.status_code = 415
    /\ gate.detail = "UnsupportedType"

(***************************************************************************)
(* Properties of validate_confidence (under SpecConfidence).               *)
(***************************************************************************)
Scored == verdict # NoVerdict

SixCritical ==
    {"supplier.name", "customer.name", "invoice.number",
     "invoice.issue_date", "invoice.due_date", "invoice.total_amount"}

FixedOrder ==
    <<"supplier.name", "customer.name", "invoice.number",
      "invoice.issue_date", "invoice.due_date", "invoice.total_amount">>

Absent(p) == ~tree.fields[p].present

Low(p) == tree.fields[p].present /\ tree.fields[p].confidence < 50

(* C12: validate_confidence accepts (is_valid true, no error message)      *)
(* exactly when each of the six critical fields is present with a          *)
(* confidence of at least 0.50; 0.50 itself passes, and no score of a      *)
(* non-critical field has a part in the decision.                          *)
C12_AcceptIffCriticalAtLeastHalf ==
    Scored =>
        /\ verdict.is_valid <=>
              \A p \in SixCritical :
                  tree.fields[p].present /\ tree.fields[p].confidence >= 50
        /\ verdict.is_valid <=> verdict.error = None

C12_Witness ==
    /\ Scored
    /\ \A p \in SixCritical : tree.fields[p] = Field(50)
    /\ tree.fields["invoice.po_number"] = Field(10)
    /\ tree.extra = Field(20)
    /\ verdict.is_valid
    /\ verdict.error = None

(* C13: when all six critical fields are present and at least one is below *)
(* 0.50, the verdict is a rejection for insufficient confidence that names *)
(* the first such field in the order supplier.name, customer.name,         *)
(* invoice.number, invoice.issue_date, invoice.due_date,                   *)
(* invoice.total_amount; supplier.name at 0.45 with the others at 0.99 is  *)
(* rejected naming supplier.name.                                          *)
FirstLow ==
    FixedOrder[CHOOSE i \in 1..6 :
                  Low(FixedOrder[i]) /\ \A j \in 1..(i - 1) : ~Low(FixedOrder[j])]

C13_RejectionNamesFirstLow ==
    (Scored /\ (\A p \in SixCritical : ~Absent(p)) /\ (\E p \in SixCritical : Low(p))) =>
        /\ ~verdict.is_valid
        /\ verdict.error = "insufficient confidence"
        /\ verdict.field = FirstLow
        /\ (tree.fields["supplier.name"].confidence = 45) =>
              verdict.field = "supplier.name"

C13_Witness ==
    /\ Scored
    /\ \A p \in SixCritical : ~Absent(p)
    /\ ~Low("supplier.name") /\ ~Low("customer.name")
    /\ Low("invoice.number")
    /\ Low("invoice.total_amount")
    /\ ~verdict.is_valid
    /\ verdict.field = "invoice.number"

(* C14 as stated: whenever customer.name is absent the verdict is a        *)
(* rejection for a missing critical field with overall_confidence 0.0,     *)
(* whatever the other fields' scores are.                                  *)
C14_Original ==
    (Scored /\ Absent("customer.name")) =>
        /\ ~verdict.is_valid
        /\ verdict.error = "missing"
        /\ verdict.overall_confidence = Zero

(* C14 amended: whenever customer.name is absent the verdict is a          *)
(* rejection; it is the rejection for a missing critical field with        *)
(* overall_confidence 0.0 unless supplier.name, which is examined first,   *)
(* is present below 0.50, and then it is the rejection for insufficient    *)
(* confidence of supplier.name.  The scores of all later fields, critical  *)
(* fields below 0.50 included, have no part in it.                         *)
C14_MissingUnlessEarlierLow ==
    (Scored /\ Absent("customer.name")) =>
        /\ ~verdict.is_valid
        /\ ~Low("supplier.name") =>
              /\ verdict.error = "missing"
              /\ verdict.overall_confidence = Zero
              /\ verdict.field =
                    IF Absent("supplier.name") THEN "supplier.name"
                    ELSE "customer.name"
        /\ Low("supplier.name") =>
              /\ verdict.error = "insufficient confidence"
              /\ verdict.field = "supplier.name"

C14_Witness ==
    /\ Scored
    /\ Absent("customer.name")
    /\ tree.fields["supplier.name"] = Field(50)
    /\ Low("invoice.number")
    /\ ~verdict.is_valid
    /\ verdict.error = "missing"
    /\ verdict.field = "customer.name"
    /\ verdict.overall_confidence = Zero

(* The scored fields of the tree as a set of places, and their scores.     *)
ScoredPlaces ==
    {<<"summary", p>> : p \in {q \in Range(SchemaPaths) : tree.fields[q].present}}
        \cup {<<"description", i>> :
                i \in {j \in DOMAIN tree.line_items :
                          tree.line_items[j].description.present}}
        \cup {<<"total", i>> :
                i \in {j \in DOMAIN tree.line_items :
                          tree.line_items[j].total.present}}
        \cup (IF tree.extra.present THEN {<<"other", 0>>} ELSE {})

ScoreAt(place) ==
    CASE place[1] = "summary" -> tree.fields[place[2]].confidence
      [] place[1] = "description" -> tree.line_items[place[2]].description.confidence
      [] place[1] = "total" -> tree.line_items[place[2]].total.confidence
      [] OTHER -> tree.extra.confidence

RECURSIVE SumOver(_)
SumOver(places) ==
    IF places = {} THEN 0
    ELSE LET x == CHOOSE y \in places : TRUE
         IN  ScoreAt(x) + SumOver(places \ {x})

(* C15: on acceptance overall_confidence is the unweighted mean of the     *)
(* confidences of all scored fields of the tree (summary fields, every     *)
(* line item, any other scored key), whatever the order they are summed    *)
(* in; a tree without any scored field aggregates to 0.0; the scores 0.90, *)
(* 0.80, 0.70, 1.00, 1.00, 0.60 give 0.8333 within 0.005.                  *)
C15_OverallIsMeanOfAllScores ==
    /\ (Scored /\ verdict.is_valid) =>
          /\ verdict.overall_confidence.num * Cardinality(ScoredPlaces)
                = SumOver(ScoredPlaces) * verdict.overall_confidence.den
          /\ verdict.overall_confidence.den > 0
    /\ (overall_score # NoOverall /\ ScoredPlaces = {}) => overall_score = Zero
    /\ (Scored /\ tree.line_items = <<>> /\ ~tree.extra.present
          /\ tree.fields = CriticalScores(Field(90), Field(80), Field(70),
                                          Field(100), Field(100), Field(60))) =>
          /\ verdict.is_valid
          /\ 8283 * verdict.overall_confidence.den
                <= 100 * verdict.overall_confidence.num
          /\ 100 * verdict.overall_confidence.num
                <= 8383 * verdict.overall_confidence.den

C15_Witness ==
    /\ Scored
    /\ verdict.is_valid
    /\ Len(tree.line_items) = 1
    /\ tree.line_items[1].total = Field(100)
    /\ tree.extra = Field(20)
    /\ tree.fields["invoice.po_number"] = Field(10)
    /\ \A p \in SixCritical : tree.fields[p] = Field(90)
    /\ verdict.overall_confidence = [num |-> 75, den |-> 1]

InWarningBand(p) ==
    /\ tree.fields[p].present
    /\ tree.fields[p].confidence >= 50
    /\ tree.fields[p].confidence < 90

(* C22 as stated: the accepting result carries the list of warnings, one   *)
(* for each critical field in [0.50, 0.90).                                *)
C22_Original ==
    (Scored /\ verdict.is_valid) =>
        /\ "warnings" \in DOMAIN verdict
        /\ verdict.warnings = SelectSeq(FixedOrder, InWarningBand)

(* C22 amended: the accepting result is (True, None, overall_confidence)   *)
(* and carries no warnings; one warning is logged for each critical field  *)
(* whose confidence is in [0.50, 0.90), in the fixed order, and none for a *)
(* critical field at 0.90 or above.                                        *)
C22_WarningsLoggedNotReturned ==
    (Scored /\ verdict.is_valid) =>
        /\ "warnings" \notin DOMAIN verdict
        /\ verdict.error = None
        /\ warned = [i \in DOMAIN SelectSeq(FixedOrder, InWarningBand) |->
                        [kind |-> "moderate confidence",
                         field |-> SelectSeq(FixedOrder, InWarningBand)[i]]]
        /\ \A p \in SixCritical :
              tree.fields[p].confidence >= 90 =>
                  \A i \in DOMAIN warned : warned[i].field # p

C22_Witness ==
    /\ Scored
    /\ verdict.is_valid
    /\ tree.fields["supplier.name"] = Field(50)
    /\ tree.fields["customer.name"] = Field(90)
    /\ tree.fields["invoice.number"] = Field(50)
    /\ tree.fields["invoice.issue_date"] = Field(90)
    /\ tree.fields["invoice.po_number"] = Field(10)
    /\ warned = <<[kind |-> "moderate confidence", field |-> "supplier.name"],
                  [kind |-> "moderate confidence", field |-> "invoice.number"]>>

(* C26: a rejection for a present critical field below 0.50 returns as    *)
(* overall_confidence the mean over every scored field of the whole tree,  *)
(* the value an acceptance would report, not 0.0; only the rejection for a *)
(* missing critical field returns the forced 0.0.                          *)
C26_LowRejectionReportsMean ==
    Scored =>
        /\ verdict.error = "insufficient confidence" =>
              /\ ~verdict.is_valid
              /\ verdict.overall_confidence.num * Cardinality(ScoredPlaces)
                    = SumOver(ScoredPlaces) * verdict.overall_confidence.den
              /\ verdict.overall_confidence.num > 0
              /\ overall_score # NoOverall =>
                    verdict.overall_confidence = overall_score
        /\ verdict.error = "missing" =>
              /\ ~verdict.is_valid
              /\ verdict.overall_confidence = [num |-> 0, den |-> 1]

C26_Witness ==
    /\ Scored
    /\ overall_score # NoOverall
    /\ verdict.error = "insufficient confidence"
    /\ verdict.field = "invoice.total_amount"
    /\ \A p \in SixCritical \ {"invoice.total_amount"} : tree.fields[p] = Field(90)
    /\ tree.fields["invoice.total_amount"] = Field(49)
    /\ tree.fields["invoice.po_number"] = Field(10)
    /\ tree.line_items = <<>>
    /\ tree.extra = Field(20)
    /\ verdict.overall_confidence = [num |-> 529, den |-> 8]

(***************************************************************************)
(* Properties of the /api/parse pipeline (under Spec).                     *)
(***************************************************************************)
(* C8: the remote call is invoked only after validate_file has accepted    *)
(* the upload of the request; a rejected upload ends the request with the  *)
(* gate's own error and without any remote call or backoff sleep.          *)
C8_NoRemoteCallWithoutGate ==
    /\ (calls > 0 \/ rpc # "idle") =>
          (gate.kind = "return" /\ gate.content = file.content)
    /\ gate.kind = "raise" =>
          /\ calls = 0
          /\ sleeps = <<>>
          /\ pc = "done"
          /\ response.status_code = gate.status_code

C8_Witness ==
    /\ gate.kind = "raise"
    /\ gate.detail = "TypeMismatch"
    /\ pc = "done"
    /\ response.status_code = 415
    /\ calls = 0
    /\ func[1].kind = "return"

Answered == pc = "done" /\ gate.kind = "return"

(* The remote call came back with a text that is not JSON.                 *)
RepliedMalformed == rpc = "returned" /\ result # PyNone /\ ~result.json

(* C16: when the remote call succeeds with a text that is not valid JSON,  *)
(* parse_invoice raises InvoiceParsingError ("malformed JSON") and nothing *)
(* is retried: the successful invocation is the last one, and no backoff   *)
(* sleep follows it.                                                       *)
C16_MalformedFailsWithoutRetry ==
    (Answered /\ RepliedMalformed) =>
        /\ extraction.kind = "raise"
        /\ extraction.exc = "InvoiceParsingError"
        /\ extraction.message = "malformed JSON"
        /\ calls \in DOMAIN func
        /\ func[calls] = Return(result)
        /\ \A n \in 1..(calls - 1) : func[n].kind = "raise"
        /\ Len(sleeps) = calls - 1
        /\ log[Len(log)] = "invoke"

C16_Witness ==
    /\ Answered
    /\ RepliedMalformed
    /\ calls = 2
    /\ Len(func) = 2
    /\ Len(sleeps) = 1
    /\ extraction.message = "malformed JSON"

(* The reply is JSON but breaks the invoice schema: a required field is    *)
(* absent, a field's confidence is outside [0.0, 1.0], or there are more   *)
(* than 50 line items.                                                     *)
RepliedSchemaViolation ==
    /\ rpc = "returned" /\ result # PyNone /\ result.json
    /\ \/ \E p \in {"supplier.name", "customer.name", "invoice.number",
                     "invoice.issue_date", "invoice.due_date"} :
              ~result.fields[p].present
       \/ \E p \in Range(SchemaPaths) :
              /\ result.fields[p].present
              /\ (result.fields[p].confidence < 0 \/ result.fields[p].confidence > 100)
       \/ \E i \in DOMAIN result.line_items :
              \/ result.line_items[i].description.confidence < 0
              \/ result.line_items[i].description.confidence > 100
       \/ Len(result.line_items) > 50

(* C17: every failure of the extraction stage (the remote call raised a    *)
(* fatal error, or a transient one on every attempt; the reply is not      *)
(* JSON; the reply breaks the schema) leaves parse_invoice as              *)
(* InvoiceParsingError, and the endpoint answers 503 ExtractionFailed.     *)
C17_ExtractionFailuresAreOneError ==
    /\ (Answered /\ (rpc = "raised" \/ RepliedMalformed \/ RepliedSchemaViolation)) =>
          /\ extraction.kind = "raise"
          /\ response.status_code = 503
          /\ response.detail = "ExtractionFailed"
    /\ extraction.kind = "raise" => extraction.exc = "InvoiceParsingError"

C17_Witness ==
    /\ Answered
    /\ rpc = "raised"
    /\ raised = "RateLimitError"
    /\ calls = 4
    /\ extraction.exc = "InvoiceParsingError"
    /\ response.status_code = 503

(* The remote call of the request timed out: the client's timeout of       *)
(* openai_timeout seconds (APITimeoutError) on the last attempt, or a      *)
(* TimeoutError.                                                           *)
TimedOut == rpc = "raised" /\ raised \in {"TimeoutError", "APITimeoutError"}

(* C18: every request ends in one outcome whose status is that of the      *)
(* stage that failed: the gate's own 400, 413 or 415; 504 when the remote  *)
(* call timed out; 503 for any other failure of extraction; 422 when the   *)
(* confidence gate rejected; 200 otherwise.  The gate's statuses and the   *)
(* 422 are never turned into 503.                                          *)
C18_StatusByFailedStage ==
    pc = "done" =>
        response.status_code =
            IF gate.kind = "raise" THEN gate.status_code
            ELSE IF TimedOut THEN 504
            ELSE IF extraction.kind = "raise" THEN 503
            ELSE IF ~verdict.is_valid THEN 422
            ELSE 200

(* C19: the endpoint returns an invoice only when the three stages have    *)
(* succeeded in order (validate_file accepted, parse_invoice returned a    *)
(* schema-valid invoice, validate_confidence accepted it); every other     *)
(* request is answered without any invoice.                                *)
AllStagesSucceeded ==
    /\ gate.kind = "return"
    /\ rpc = "returned"
    /\ extraction.kind = "return"
    /\ Scored
    /\ verdict.is_valid

C19_InvoiceOnlyAfterAllStages ==
    /\ response.invoice # NoInvoice =>
          /\ pc = "done"
          /\ AllStagesSucceeded
          /\ response.status_code = 200
          /\ response.invoice = extraction.invoice
          /\ tree.fields = response.invoice.fields
    /\ (pc = "done" /\ ~AllStagesSucceeded) =>
          /\ response.invoice = NoInvoice
          /\ response.status_code # 200
    /\ (calls > 0 \/ rpc # "idle") => gate.kind = "return"
    /\ extraction # NoExtraction => rpc \in {"returned", "raised"}
    /\ Scored => extraction.kind = "return"

C19_Witness ==
    /\ pc = "done"
    /\ AllStagesSucceeded
    /\ calls = 3
    /\ response.status_code = 200
    /\ response.invoice # NoInvoice
    /\ response.invoice.fields["supplier.name"] = Field(95)
    /\ Len(response.invoice.line_items) = 1

(* A scored field of the reply is out of [0.0, 1.0].                       *)
DeclaredOutOfRange ==
    \/ \E p \in Range(SchemaPaths) :
          /\ result.fields[p].present
          /\ (result.fields[p].confidence < 0 \/ result.fields[p].confidence > 100)
    \/ \E i \in DOMAIN result.line_items :
          \/ result.line_items[i].description.confidence < 0
          \/ result.line_items[i].description.confidence > 100
          \/ /\ result.line_items[i].total.present
             /\ (result.line_items[i].total.confidence < 0
                   \/ result.line_items[i].total.confidence > 100)

RepliedJson == rpc = "returned" /\ result # PyNone /\ result.json

InvoiceInRange(inv) ==
    /\ \A p \in Range(SchemaPaths) :
          inv.fields[p].present =>
              (inv.fields[p].confidence >= 0 /\ inv.fields[p].confidence <= 100)
    /\ \A i \in DOMAIN inv.line_items :
          /\ inv.line_items[i].description.confidence >= 0
          /\ inv.line_items[i].description.confidence <= 100
          /\ inv.line_items[i].total.present =>
                (inv.line_items[i].total.confidence >= 0
                    /\ inv.line_items[i].total.confidence <= 100)
    /\ ~inv.extra.present

(* The reply carries a confidence outside [0.0, 1.0] under a key the       *)
(* schema does not declare.                                                *)
UndeclaredOutOfRange ==
    /\ result.extra.present
    /\ (result.extra.confidence < 0 \/ result.extra.confidence > 100)

(* C20 as stated: a confidence outside [0.0, 1.0] on any scored field of   *)
(* the reply makes extraction fail with InvoiceParsingError, and no        *)
(* invoice is produced.                                                    *)
C20_Original ==
    (Answered /\ RepliedJson /\ (DeclaredOutOfRange \/ UndeclaredOutOfRange)) =>
        /\ extraction.kind = "raise"
        /\ extraction.exc = "InvoiceParsingError"
        /\ response.invoice = NoInvoice

(* C20 amended: a confidence outside [0.0, 1.0] on a scored field the      *)
(* schema declares (summary fields and line items) makes                   *)
(* extraction fail with InvoiceParsingError (invalid response structure)   *)
(* and no invoice is produced; a returned invoice carries the reply's      *)
(* confidences unchanged, never clamped, all within [0.0, 1.0], and        *)
(* nothing under a key the schema does not declare.                        *)
C20_OutOfRangeConfidenceFails ==
    /\ (Answered /\ RepliedJson /\ DeclaredOutOfRange) =>
          /\ extraction.kind = "raise"
          /\ extraction.exc = "InvoiceParsingError"
          /\ extraction.message = "Invalid response structure"
          /\ extraction.invoice = NoInvoice
          /\ response.invoice = NoInvoice
    /\ extraction.kind = "return" =>
          /\ InvoiceInRange(extraction.invoice)
          /\ \A p \in Range(SchemaPaths) :
                IF result.fields[p].present
                THEN extraction.invoice.fields[p] = result.fields[p]
                ELSE ~extraction.invoice.fields[p].present
          /\ Len(extraction.invoice.line_items) = Len(result.line_items)
          /\ \A i \in DOMAIN result.line_items :
                /\ extraction.invoice.line_items[i].description
                      = result.line_items[i].description
                /\ IF result.line_items[i].total.present
                   THEN extraction.invoice.line_items[i].total
                          = result.line_items[i].total
                   ELSE ~extraction.invoice.line_items[i].total.present

C20_Witness ==
    /\ Answered
    /\ RepliedJson
    /\ result.fields["invoice.total_amount"] = Field(120)
    /\ result.fields["supplier.name"] = Field(95)
    /\ extraction.kind = "raise"
    /\ extraction.message = "Invalid response structure"
    /\ response.status_code = 503

(* C21: when the remote request times out, or the rate limit is still      *)
(* exceeded after the retries, parse_invoice raises APITimeoutError, or    *)
(* RateLimitError, to its caller, as its docstring states.                 *)
C21_DocumentedRaises ==
    (Answered /\ rpc = "raised" /\ raised \in {"APITimeoutError", "RateLimitError"}) =>
        /\ extraction.kind = "raise"
        /\ extraction.exc = raised

(* The model's reply supplies the five fields the schema requires and no   *)
(* invoice.total_amount.                                                   *)
FiveRequired ==
    {"supplier.name", "customer.name", "invoice.number",
     "invoice.issue_date", "invoice.due_date"}

RepliedWithoutTotal ==
    /\ Answered
    /\ RepliedJson
    /\ \A p \in FiveRequired : result.fields[p].present
    /\ ~result.fields["invoice.total_amount"].present

(* The rest of the reply is within the schema: confidences in [0, 1], at   *)
(* most 50 line items, each with a description.                            *)
RestWithinSchema ==
    /\ \A p \in DOMAIN result.fields :
          result.fields[p].present =>
              (result.fields[p].confidence >= 0 /\ result.fields[p].confidence <= 100)
    /\ Len(result.line_items) <= 50
    /\ \A i \in DOMAIN result.line_items :
          /\ result.line_items[i].description.present
          /\ result.line_items[i].description.confidence \in 0..100
          /\ result.line_items[i].total.present =>
                result.line_items[i].total.confidence \in 0..100

FiveAtLeastHalf == \A p \in FiveRequired : result.fields[p].confidence >= 50

RejectedAsMissingTotal ==
    /\ extraction.kind = "return"
    /\ verdict.error = "missing"
    /\ verdict.field = "invoice.total_amount"
    /\ verdict.overall_confidence = Zero
    /\ response.status_code = 422

(* C27 as stated: a reply with the five required fields and no             *)
(* invoice.total_amount passes extraction, is rejected by the gate for a   *)
(* missing critical field with overall confidence 0.0, and is answered     *)
(* with 422, not 503.                                                      *)
C27_Original == RepliedWithoutTotal => RejectedAsMissingTotal

(* C27: a reply with the five required fields, each scored at least 0.50,  *)
(* no invoice.total_amount and the rest within the schema passes           *)
(* extraction and is rejected for the missing total with overall           *)
(* confidence 0.0 and status 422; when the rest is within the schema and   *)
(* one of the five is scored below 0.50 the reply still passes extraction  *)
(* and is answered with 422, for insufficient confidence of that field.    *)
C27_RequiredButNotCritical ==
    (RepliedWithoutTotal /\ RestWithinSchema) =>
        /\ extraction.kind = "return"
        /\ response.status_code = 422
        /\ response.detail # "ExtractionFailed"
        /\ FiveAtLeastHalf => RejectedAsMissingTotal
        /\ ~FiveAtLeastHalf =>
              /\ verdict.error = "insufficient confidence"
              /\ verdict.field \in FiveRequired
              /\ verdict.overall_confidence # Zero

C27_Witness ==
    /\ RepliedWithoutTotal
    /\ calls = 2
    /\ result.fields["supplier.name"] = Field(95)
    /\ result.line_items = <<>>
    /\ extraction.kind = "return"
    /\ verdict.field = "invoice.total_amount"
    /\ response = HttpError(422, "Invoice quality insufficient")

(* m hundredths is x rounded to two decimals (either neighbour on a tie).  *)
IsRoundingOf(m, x) == 2 * Abs(m * x.den - x.num) <= x.den

Succeeded == pc = "done" /\ response.status_code = 200

MetaOverall == response.invoice.meta.overall_confidence

(* The mean of the scores the gate averages together with the score the    *)
(* reply carries under a key the schema does not declare.                  *)
MeanWithUndeclared ==
    [num |-> SumOver(ScoredPlaces) + result.extra.confidence,
     den |-> Cardinality(ScoredPlaces) + 1]

(* C30 as stated: for every returned invoice the overall confidence in     *)
(* meta is the gate's overall confidence rounded to two decimals, whatever *)
(* unknown keys the reply contains.                                        *)
C30_Original ==
    Succeeded => IsRoundingOf(MetaOverall, verdict.overall_confidence)

(* C30: for every returned invoice whose reply has no scored entry under   *)
(* an undeclared key, the overall confidence in meta is the gate's overall *)
(* confidence rounded to two decimals; with such an entry, meta is the     *)
(* rounded mean of the gate's scores and that entry's score.               *)
C30_MetaIsRoundedGateMeanUnlessUndeclared ==
    Succeeded =>
        /\ verdict.is_valid
        /\ ~tree.extra.present
        /\ IF result.extra.present
           THEN IsRoundingOf(MetaOverall, MeanWithUndeclared)
           ELSE IsRoundingOf(MetaOverall, verdict.overall_confidence)

C30_Witness ==
    /\ Succeeded
    /\ result.extra = Field(20)
    /\ MetaOverall = 84
    /\ verdict.overall_confidence = [num |-> 95, den |-> 1]

(***************************************************************************)
(* Properties of a cancelled request (under SpecCancel).                   *)
(***************************************************************************)
(* C24: a cancellation while the remote call is in flight or during a      *)
(* backoff sleep is neither retried nor handled as an error of the         *)
(* operation: no invocation and no sleep follows it, it reaches the caller *)
(* as the cancellation it is, not as an extraction error, and the request  *)
(* returns no invoice.                                                     *)
C24_CancellationAbandonsTheCall ==
    [][/\ raised = "CancelledError" =>
            /\ calls' = calls
            /\ sleeps' = sleeps
            /\ log' = log
            /\ raised' = raised
            /\ rpc' = "raised"
       /\ (raised # "CancelledError" /\ raised' = "CancelledError") =>
            /\ rpc \in {"call", "sleeping"}
            /\ rpc' = "raised"
            /\ sleeps' = sleeps
            /\ calls' = (IF rpc = "call" THEN calls + 1 ELSE calls)
            /\ result' = result
       /\ (raised' = "CancelledError" /\ pc' = "done") =>
            /\ extraction'.kind = "raise"
            /\ extraction'.exc = "CancelledError"
            /\ response'.detail \notin {"ExtractionFailed", "Service unavailable"}
            /\ response'.status_code \notin {200, 503, 504}
            /\ response'.invoice = NoInvoice]_vars

C24_Witness ==
    /\ pc = "done"
    /\ raised = "CancelledError"
    /\ calls = 2
    /\ Len(sleeps) = 2
    /\ log = <<"invoke", "sleep", "invoke", "sleep">>
    /\ extraction.exc = "CancelledError"
    /\ response.invoice = NoInvoice
====
